---- MODULE Spec2Model ----
(***************************************************************************)
(* Model of ssl_check.py: the certificate-expiry evaluation of one site    *)
(* (process_site) and the monitoring cycle around it (run_check).          *)
(*                                                                         *)
(* Time is counted in hours since the start of the run.  An optional value *)
(* (Python's None or a value) is a set: {} for None, {v} for the value v.  *)
(* A string is a sequence of tokens whose concatenation is the text.       *)
(***************************************************************************)
EXTENDS Integers, Sequences, FiniteSets, TLC

VARIABLES sites,      \* config['sites'] as load_config returns it
          persisted,  \* the state file: site key -> site state record
          state,      \* run_check's in-memory state dict during a cycle
          pc,         \* "idle" between cycles, "running" inside run_check
          idx,        \* position of the for loop over config['sites']
          now,        \* the wall clock, in hours
          lastEval,   \* observation of the most recent process_site call
          failed,     \* positions of the sites whose probe failed in this cycle
          alerted,    \* the <<key, expiry, threshold>> of the alerts dispatched
          lastAlert,  \* site key -> clock of the latest threshold alert dispatched
          dispatch,   \* the send_notifications call: channels, position, sends
          track       \* thresholds the rate limit suppressed, and those passed over

vars == <<sites, persisted, state, pc, idx, now, lastEval, failed, alerted,
          lastAlert, dispatch, track>>

\* the variables the monitoring cycle itself does not touch
aux == <<dispatch, track>>

----------------------------------------------------------------------------
(* Units and bounds *)

HoursPerDay == 24
SecsPerHour == 3600
DefaultPort == 443
DefaultIntervalHours == 24
WarningAbove == 7
DefaultAlertDays == <<30, 15, 7, 3, 1>>

\* The clock advances in half days up to MaxHalfDays half days.
MaxHalfDays == 4
TickHours == HoursPerDay \div 2
\* The evaluation specification probes expiries of up to MaxEvalDays days.
MaxEvalDays == 31
\* The hourly clock of the rate-limit specification runs up to MaxRateHours.
MaxRateHours == 25
\* The clock of the constant-certificate specification runs up to
\* MaxConstHalfDays half days.
MaxConstHalfDays == 31

None == {}
Some(v) == {v}
Val(opt) == CHOOSE v \in opt : TRUE

----------------------------------------------------------------------------
(* Configuration *)

\* A text (a hostname as configured, a host name) is the sequence of its
\* characters, over ASCII letters, digits and the punctuation of URLs; the
\* brackets of IPv6 literals and white space are not part of the texts.
HostA ==
  << "a", ".", "e", "x", "a", "m", "p", "l", "e" >>

\* "https://A.Example": the same endpoint given as a URL
UrlA ==
  << "h", "t", "t", "p", "s", ":", "/", "/", "A", ".", "E", "x", "a", "m",
     "p", "l", "e" >>

HostB ==
  << "b", ".", "e", "x", "a", "m", "p", "l", "e" >>

HostC ==
  << "c", ".", "e", "x", "a", "m", "p", "l", "e" >>

\* the host of a site that was removed from the configuration
HostOld ==
  << "o", "l", "d", ".", "e", "x", "a", "m", "p", "l", "e" >>

\* str(None)
NoneText == <<"N", "o", "n", "e">>

UpperCase ==
  << "A", "B", "C", "D", "E", "F", "G", "H", "I", "J", "K", "L", "M", "N",
     "O", "P", "Q", "R", "S", "T", "U", "V", "W", "X", "Y", "Z" >>

LowerCase ==
  << "a", "b", "c", "d", "e", "f", "g", "h", "i", "j", "k", "l", "m", "n",
     "o", "p", "q", "r", "s", "t", "u", "v", "w", "x", "y", "z" >>

Letters == {UpperCase[i] : i \in 1..Len(UpperCase)}
             \cup {LowerCase[i] : i \in 1..Len(LowerCase)}

Digits == {"0", "1", "2", "3", "4", "5", "6", "7", "8", "9"}

\* urllib.parse.scheme_chars
SchemeChars == Letters \cup Digits \cup {"+", "-", "."}

\* str.lower() on one character
ToLower(c) ==
  IF \E i \in 1..Len(UpperCase) : UpperCase[i] = c
  THEN LowerCase[CHOOSE i \in 1..Len(UpperCase) : UpperCase[i] = c]
  ELSE c

\* str.lower()
LowerText(text) == [i \in 1..Len(text) |-> ToLower(text[i])]

\* the first position from start on that holds one of the characters, 0
\* when there is none
Find(text, cs, start) ==
  LET hits == {i \in start..Len(text) : text[i] \in cs}
  IN  IF hits = {} THEN 0 ELSE CHOOSE i \in hits : \A j \in hits : i <= j

\* the last position that holds the character, 0 when there is none
FindLast(text, c) ==
  LET hits == {i \in 1..Len(text) : text[i] = c}
  IN  IF hits = {} THEN 0 ELSE CHOOSE i \in hits : \A j \in hits : i >= j

\* str.startswith
StartsWith(text, prefix) ==
  Len(text) >= Len(prefix) /\ SubSeq(text, 1, Len(prefix)) = prefix

\* The sites of the monitored configuration: two entries for the same
\* endpoint (one given as a bare host, one as a URL) and one other endpoint.
SitesConfig ==
  << [name |-> "web", hostname |-> HostA, port |-> None,
      alert_days |-> None, interval_hours |-> None],
     [name |-> "web-url", hostname |-> UrlA,
      port |-> Some(443), alert_days |-> Some(<<3, 7>>),
      interval_hours |-> Some(12)],
     [name |-> "api", hostname |-> HostB, port |-> Some(8443),
      alert_days |-> Some(<<>>), interval_hours |-> Some(24)] >>

\* Expiry timestamps a probe can report, in hours.
Expiries == { 9 * HoursPerDay, 10 * HoursPerDay }

\* site.get('port', 443)
Port(site) == IF site.port = None THEN DefaultPort ELSE Val(site.port)

\* the configured interval is never read
IntervalHoursDefaultOnly(site) == DefaultIntervalHours

\* site.get('notification_interval_hours', 24)
IntervalHours(site) ==
  IF site.interval_hours = None THEN DefaultIntervalHours
  ELSE Val(site.interval_hours)

\* the configured alert_days are never read
AlertDaysDefaultOnly(site) == DefaultAlertDays

\* site.get('alert_days', [30, 15, 7, 3, 1])
AlertDays(site) ==
  IF site.alert_days = None THEN DefaultAlertDays ELSE Val(site.alert_days)

\* original_hostname.startswith('http')
StartsWithHttp(text) == StartsWith(text, <<"h", "t", "t", "p">>)

\* urlsplit: what follows "scheme:" when the text up to the first colon is
\* a scheme (a letter, then scheme characters), else the whole text
UrlAfterScheme(text) ==
  LET i == Find(text, {":"}, 1)
  IN  IF /\ i > 1
         /\ text[1] \in Letters
         /\ \A j \in 1..(i - 1) : text[j] \in SchemeChars
      THEN SubSeq(text, i + 1, Len(text))
      ELSE text

\* urlsplit: the netloc follows "//" and ends before the first of / ? #
Netloc(text) ==
  LET url == UrlAfterScheme(text)
      delim == Find(url, {"/", "?", "#"}, 3)
  IN  IF StartsWith(url, <<"/", "/">>)
      THEN SubSeq(url, 3, IF delim = 0 THEN Len(url) ELSE delim - 1)
      ELSE <<>>

\* _hostinfo: the netloc after its last "@", up to the first ":"
HostInfo(netloc) ==
  LET hostinfo == SubSeq(netloc, FindLast(netloc, "@") + 1, Len(netloc))
      colon == Find(hostinfo, {":"}, 1)
  IN  IF colon = 0 THEN hostinfo ELSE SubSeq(hostinfo, 1, colon - 1)

\* urlparse(text).hostname: None without a host, else the host in lower
\* case (a zone after "%" keeps its case)
UrlparseHostname(text) ==
  LET host == HostInfo(Netloc(text))
      percent == Find(host, {"%"}, 1)
  IN  IF host = <<>> THEN None
      ELSE IF percent = 0 THEN Some(LowerText(host))
      ELSE Some(LowerText(SubSeq(host, 1, percent - 1))
                  \o SubSeq(host, percent, Len(host)))

\* the hostname process_site connects to
Hostname(site) ==
  IF StartsWithHttp(site.hostname) THEN UrlparseHostname(site.hostname)
  ELSE Some(site.hostname)

\* the key is built from the hostname as configured, URL or not
SiteKeyRaw(site) == << site.hostname, Port(site) >>

\* f"{hostname}:{port}"
SiteKey(site) ==
  LET h == Hostname(site)
  IN  << IF h = None THEN NoneText ELSE Val(h), Port(site) >>

----------------------------------------------------------------------------
(* The evaluation of one site *)

DefaultSiteState ==
  [last_expiry |-> None, notified_thresholds |-> <<>>,
   last_notification_sent |-> None]

\* state.get(site_key, {...})
SiteState(st, key) == IF key \in DOMAIN st THEN st[key] ELSE DefaultSiteState

\* the store is rebuilt from the evaluated site alone
StorePutOnly(st, key, rec) == [k \in {key} |-> rec]

\* state[site_key] = site_state
StorePut(st, key, rec) ==
  [k \in DOMAIN st \cup {key} |-> IF k = key THEN rec ELSE st[k]]

EmptyStore == [k \in {} |-> DefaultSiteState]

InSeq(x, seq) == \E i \in 1..Len(seq) : seq[i] = x

RECURSIVE InsertDesc(_, _)
InsertDesc(x, seq) ==
  IF seq = <<>> THEN <<x>>
  ELSE IF x >= Head(seq) THEN <<x>> \o seq
  ELSE <<Head(seq)>> \o InsertDesc(x, Tail(seq))

\* sorted(..., reverse=True)
RECURSIVE SortedDesc(_)
SortedDesc(seq) ==
  IF seq = <<>> THEN <<>> ELSE InsertDesc(Head(seq), SortedDesc(Tail(seq)))

\* (current_expiry - now).days
RemainingDays(current_expiry, t_now) == (current_expiry - t_now) \div HoursPerDay

\* any change of the expiry counts as a renewal
RenewalDetectedOnChange(site_state, current_expiry) ==
  /\ site_state.last_expiry # None
  /\ current_expiry # Val(site_state.last_expiry)

\* an unchanged expiry counts as a renewal
RenewalDetectedOrSame(site_state, current_expiry) ==
  /\ site_state.last_expiry # None
  /\ current_expiry >= Val(site_state.last_expiry)

\* last_expiry_str is set and current_expiry > last_expiry
RenewalDetected(site_state, current_expiry) ==
  /\ site_state.last_expiry # None
  /\ current_expiry > Val(site_state.last_expiry)

\* the loop with an early exit: the first match, the largest threshold, wins
RECURSIVE ScanThresholdsFirstMatch(_, _, _)
ScanThresholdsFirstMatch(alert_days, remaining_days, candidate) ==
  IF alert_days = <<>> THEN candidate
  ELSE IF remaining_days <= Head(alert_days) THEN Some(Head(alert_days))
  ELSE ScanThresholdsFirstMatch(Tail(alert_days), remaining_days, candidate)

\* the for loop over alert_days: every match overwrites the candidate
RECURSIVE ScanThresholds(_, _, _)
ScanThresholds(alert_days, remaining_days, candidate) ==
  IF alert_days = <<>> THEN candidate
  ELSE ScanThresholds(Tail(alert_days), remaining_days,
                      IF remaining_days <= Head(alert_days)
                      THEN Some(Head(alert_days)) ELSE candidate)

TriggeredThreshold(alert_days, remaining_days) ==
  ScanThresholds(alert_days, remaining_days, None)

\* the alert is still suppressed when exactly the interval has elapsed
WithinIntervalInclusive(site_state, t_now, interval_hours) ==
  /\ site_state.last_notification_sent # None
  /\ (t_now - Val(site_state.last_notification_sent)) * SecsPerHour
       <= interval_hours * SecsPerHour

\* the rate limit: secs_since_last < interval_hours * 3600
WithinInterval(site_state, t_now, interval_hours) ==
  /\ site_state.last_notification_sent # None
  /\ (t_now - Val(site_state.last_notification_sent)) * SecsPerHour
       < interval_hours * SecsPerHour

\* threshold 7 is still a warning
AlertLevelFrom7(threshold) ==
  IF threshold >= WarningAbove THEN "warning" ELSE "error"

\* level of a threshold alert
AlertLevel(threshold) == IF threshold > WarningAbove THEN "warning" ELSE "error"

RenewalEvent(site) ==
  [kind |-> "renewal", level |-> "info", site |-> site.name, threshold |-> None]

ThresholdEvent(site, threshold) ==
  [kind |-> "threshold", level |-> AlertLevel(threshold), site |-> site.name,
   threshold |-> Some(threshold)]

FailureEvent(site) ==
  [kind |-> "failure", level |-> "error", site |-> site.name, threshold |-> None]

\* the alert is recorded without its timestamp
RecordAlertNoStamp(site_state, threshold, t_now) ==
  [site_state EXCEPT !.notified_thresholds = Append(@, threshold)]

\* the alert is left unrecorded, to be tried again
RecordAlertForRetry(site_state, threshold, t_now) == site_state

\* the state update after a dispatched threshold alert
RecordAlert(site_state, threshold, t_now) ==
  [site_state EXCEPT !.notified_thresholds = Append(@, threshold),
                     !.last_notification_sent = Some(t_now)]

\* the recorded expiry never moves back
RecordExpiryLatest(site_state, current_expiry) ==
  IF /\ site_state.last_expiry # None
     /\ Val(site_state.last_expiry) > current_expiry
  THEN site_state
  ELSE [site_state EXCEPT !.last_expiry = Some(current_expiry)]

\* site_state['last_expiry'] = current_expiry.isoformat()
RecordExpiry(site_state, current_expiry) ==
  [site_state EXCEPT !.last_expiry = Some(current_expiry)]

\* the try block of process_site after a successful probe
Evaluate(site, site_state, current_expiry, t_now) ==
  LET alert_days == SortedDesc(AlertDays(site))
      remaining_days == RemainingDays(current_expiry, t_now)
      renewed == RenewalDetected(site_state, current_expiry)
      s1 == IF renewed THEN [site_state EXCEPT !.notified_thresholds = <<>>]
            ELSE site_state
      s2 == RecordExpiry(s1, current_expiry)
      triggered == TriggeredThreshold(alert_days, remaining_days)
      fresh == /\ triggered # None
               /\ ~InSeq(Val(triggered), s2.notified_thresholds)
      should_send == fresh /\ ~WithinInterval(s2, t_now, IntervalHours(site))
      s3 == IF should_send THEN RecordAlert(s2, Val(triggered), t_now) ELSE s2
  IN  [state |-> s3,
       events |-> (IF renewed THEN <<RenewalEvent(site)>> ELSE <<>>)
                  \o (IF should_send
                      THEN <<ThresholdEvent(site, Val(triggered))>> ELSE <<>>),
       remaining |-> remaining_days,
       triggered |-> triggered]

\* the except block: one error notification, site_state as it was read
ProbeFailed(site, site_state) ==
  [state |-> site_state, events |-> <<FailureEvent(site)>>,
   remaining |-> 0, triggered |-> None]

----------------------------------------------------------------------------
(* The monitoring cycle *)

Fail == [ok |-> FALSE, expiry |-> 0]
Cert(e) == [ok |-> TRUE, expiry |-> e]

\* get_ssl_expiry: a verified certificate that has not expired, or an error
ProbeResults(t_now) == {Fail} \cup {Cert(e) : e \in {x \in Expiries : x > t_now}}

NoEval ==
  [kind |-> "none", site |-> 0, key |-> << <<>>, 0 >>, expiry |-> 0, at |-> 0,
   had |-> FALSE, prior |-> DefaultSiteState, post |-> DefaultSiteState,
   events |-> <<>>, remaining |-> 0, triggered |-> None,
   prevAlert |-> None, repeat |-> FALSE, stored |-> FALSE]

KeysOf(config) == {SiteKey(config[i]) : i \in 1..Len(config)}

\* no send_notifications call observed
NoDispatch ==
  [channels |-> [slack |-> None, discord |-> None, telegram_token |-> None,
                 telegram_chat_id |-> None],
   level |-> "info", pos |-> "none", attempts |-> <<>>]

NoTrack == [suppressed |-> {}, lost |-> {}, undelivered |-> {}]

ThresholdsOf(events) ==
  {Val(events[i].threshold) :
     i \in {j \in 1..Len(events) : events[j].kind = "threshold"}}

\* a failed probe leaves run_check
AfterSiteRaise(probe_ok) == IF probe_ok THEN "running" ELSE "idle"

\* the loop continues with the next site whatever the probe did: process_site
\* catches the error itself
AfterSite(probe_ok) == "running"

InitWith(config) ==
  /\ sites = config
  /\ persisted = EmptyStore
  /\ state = EmptyStore
  /\ pc = "idle"
  /\ idx = 1
  /\ now = 0
  /\ lastEval = NoEval
  /\ failed = {}
  /\ alerted = {}
  /\ lastAlert = [k \in KeysOf(config) |-> None]
  /\ dispatch = NoDispatch
  /\ track = NoTrack

\* a site entry without the 'name' key
UnnamedSite ==
  [hostname |-> HostC, port |-> None, alert_days |-> None,
   interval_hours |-> None]

\* site['name'] and site['hostname'] raise KeyError on a missing key
WellFormed(site) == {"name", "hostname"} \subseteq DOMAIN site

\* the site lists load_config reads from sites.yaml, which may be edited
\* between cycles: the three sites, the first site followed by an entry
\* without a name, and the URL-form site alone
Configs ==
  { SitesConfig, <<SitesConfig[1], UnnamedSite>>, <<SitesConfig[2]>> }

InitOver(configs) ==
  /\ sites \in configs
  /\ persisted = EmptyStore
  /\ state = EmptyStore
  /\ pc = "idle"
  /\ idx = 1
  /\ now = 0
  /\ lastEval = NoEval
  /\ failed = {}
  /\ alerted = {}
  /\ lastAlert = [k \in UNION {KeysOf(c) : c \in configs} |-> None]
  /\ dispatch = NoDispatch
  /\ track = NoTrack

Init == InitOver(Configs)

\* the three sites, each entry well formed
InitProbe == InitWith(SitesConfig)

\* time passes
Tick ==
  /\ now + TickHours <= MaxHalfDays * TickHours
  /\ now' = now + TickHours
  /\ UNCHANGED <<sites, persisted, state, pc, idx, lastEval, failed, alerted,
                 lastAlert, aux>>

\* run_check up to the for loop: load_state, or return on an empty site list
LoadState ==
  /\ pc = "idle"
  /\ state' = persisted
  /\ idx' = 1
  /\ pc' = IF Len(sites) = 0 THEN "idle" ELSE "running"
  /\ lastEval' = NoEval
  /\ failed' = {}
  /\ UNCHANGED <<sites, persisted, now, alerted, lastAlert, aux>>

\* one iteration of the for loop: process_site(site, state, channels)
ProcessSiteOn(probes) ==
  /\ pc = "running"
  /\ idx <= Len(sites)
  /\ \E probe \in probes :
       LET site == sites[idx]
           key == SiteKey(site)
           site_state == SiteState(state, key)
           out == IF probe.ok THEN Evaluate(site, site_state, probe.expiry, now)
                  ELSE ProbeFailed(site, site_state)
           sentT == ThresholdsOf(out.events)
       IN  /\ state' = StorePut(state, key, out.state)
           /\ lastEval' =
                [kind |-> IF probe.ok THEN "ok" ELSE "fail",
                 site |-> idx, key |-> key, expiry |-> probe.expiry, at |-> now,
                 had |-> key \in DOMAIN state, prior |-> site_state,
                 post |-> out.state, events |-> out.events,
                 remaining |-> out.remaining, triggered |-> out.triggered,
                 prevAlert |-> lastAlert[key],
                 repeat |-> \E t \in sentT : <<key, probe.expiry, t>> \in alerted,
                 stored |-> key \in DOMAIN state']
           /\ failed' = IF probe.ok THEN failed ELSE failed \cup {idx}
           /\ alerted' = alerted \cup {<<key, probe.expiry, t>> : t \in sentT}
           /\ lastAlert' = IF sentT = {} THEN lastAlert
                           ELSE [lastAlert EXCEPT ![key] = Some(now)]
           /\ pc' = AfterSite(probe.ok)
  /\ idx' = idx + 1
  /\ UNCHANGED <<sites, persisted, now>>

ProcessSite == ProcessSiteOn(ProbeResults(now)) /\ UNCHANGED aux

\* the end of run_check: save_state(state)
SaveState ==
  /\ pc = "running"
  /\ idx = Len(sites) + 1
  /\ persisted' = state
  /\ pc' = "idle"
  /\ lastEval' = NoEval
  /\ UNCHANGED <<sites, state, idx, now, failed, alerted, lastAlert, aux>>

\* the store on disk after an exception left run_check is the in-memory store
StoreAfterAbortSaved(on_disk, in_memory) == in_memory

\* an exception in the for loop skips save_state: the file is not written
StoreAfterAbort(on_disk, in_memory) == on_disk

\* load_config at the start of the next cycle reads an edited sites.yaml
LoadConfigFrom(configs) ==
  /\ pc = "idle"
  /\ sites' \in configs
  /\ UNCHANGED <<persisted, state, pc, idx, now, lastEval, failed, alerted,
                 lastAlert, aux>>

\* one iteration of the for loop on a site entry that has its keys
ProcessSiteChecked ==
  /\ pc = "running"
  /\ idx <= Len(sites)
  /\ WellFormed(sites[idx])
  /\ ProcessSiteOn(ProbeResults(now))
  /\ UNCHANGED aux

\* process_site raises before its try block; run_check is left without
\* save_state and main logs the error (daemon) or exits
RaiseInSite ==
  /\ pc = "running"
  /\ idx <= Len(sites)
  /\ ~WellFormed(sites[idx])
  /\ pc' = "idle"
  /\ persisted' = StoreAfterAbort(persisted, state)
  /\ lastEval' = NoEval
  /\ UNCHANGED <<sites, state, idx, now, failed, alerted, lastAlert, aux>>

LoadSites == LoadConfigFrom(Configs)

Next ==
  Tick \/ LoadSites \/ LoadState \/ ProcessSiteChecked \/ RaiseInSite
    \/ SaveState

Spec == Init /\ [][Next]_vars

\* the cycles of a configuration whose entries are all well formed: only
\* probes fail
NextProbe == Tick \/ LoadState \/ ProcessSite \/ SaveState

SpecProbe == InitProbe /\ [][NextProbe]_vars

----------------------------------------------------------------------------
(* The evaluation on drawn inputs: one configured site (or none), its      *)
(* alert_days drawn from EvalAlertDays, probed expiries of whole days.     *)

EvalAlertDays ==
  { None, Some(<<>>), Some(<<7>>), Some(<<1, 30>>), Some(<<3, 15, 7>>),
    Some(<<7, 30, 7>>) }

EvalConfigs ==
  {<<>>} \cup
  { << [name |-> "web", hostname |-> HostA, port |-> None,
        alert_days |-> days, interval_hours |-> None] >> :
      days \in EvalAlertDays }

EvalProbes == {Fail} \cup {Cert(d * HoursPerDay) : d \in 1..MaxEvalDays}

InitEval == \E config \in EvalConfigs : InitWith(config)

ProcessSiteEval == ProcessSiteOn(EvalProbes) /\ UNCHANGED aux

NextEval == LoadState \/ ProcessSiteEval \/ SaveState

SpecEval == InitEval /\ [][NextEval]_vars

----------------------------------------------------------------------------
(* The rate limit by the hour: one configured site, a clock of hours, a    *)
(* certificate of eight days and one that is five days away at hour one.   *)

RateConfigs == { <<SitesConfig[1]>>, <<SitesConfig[2]>> }

RateExpiries == { 5 * HoursPerDay + 1, 8 * HoursPerDay }

RateProbes(t_now) ==
  {Fail} \cup {Cert(e) : e \in {x \in RateExpiries : x > t_now}}

InitRate == \E config \in RateConfigs : InitWith(config)

\* an hour passes
TickHour ==
  /\ now + 1 <= MaxRateHours
  /\ now' = now + 1
  /\ UNCHANGED <<sites, persisted, state, pc, idx, lastEval, failed, alerted,
                 lastAlert, aux>>

ProcessSiteRate == ProcessSiteOn(RateProbes(now)) /\ UNCHANGED aux

NextRate == TickHour \/ LoadState \/ ProcessSiteRate \/ SaveState

SpecRate == InitRate /\ [][NextRate]_vars

----------------------------------------------------------------------------
(* send_notifications: one event dispatched to the channels of a site.  A  *)
(* channel value is absent, the empty string or a URL / token.             *)

ChannelValues == {None, Some(""), Some("https://hook")}

Levels == {"info", "warning", "error"}

\* requests.post and raise_for_status: the send succeeds or raises
SendResults == {"ok", "error"}

\* Python truthiness of channels.get(...)
Truthy(v) == v # None /\ Val(v) # ""

\* the if of send_notifications that guards the send to a channel
Configured(channels, c) ==
  CASE c = "slack" -> Truthy(channels.slack)
    [] c = "discord" -> Truthy(channels.discord)
    [] c = "telegram" -> /\ Truthy(channels.telegram_token)
                         /\ Truthy(channels.telegram_chat_id)

NextChannel(c) ==
  CASE c = "slack" -> "discord"
    [] c = "discord" -> "telegram"
    [] c = "telegram" -> "done"

\* the error of a send leaves send_notifications
AfterSendPropagate(c, result) ==
  IF result = "error" THEN "raised" ELSE NextChannel(c)

\* try / except Exception in each send_*_notification: the error is logged
\* and the function returns
AfterSend(c, result) == NextChannel(c)

\* send_notifications, as one function of the send results per channel
Attempts(channels, results) ==
  LET Try(c) == IF Configured(channels, c)
                THEN <<[channel |-> c, result |-> results[c]]>> ELSE <<>>
  IN  Try("slack") \o Try("discord") \o Try("telegram")

InitDispatch ==
  /\ sites = <<>>
  /\ persisted = EmptyStore
  /\ state = EmptyStore
  /\ pc = "idle"
  /\ idx = 1
  /\ now = 0
  /\ lastEval = NoEval
  /\ failed = {}
  /\ alerted = {}
  /\ lastAlert = [k \in {} |-> None]
  /\ track = NoTrack
  /\ \E s \in ChannelValues, d \in ChannelValues, tt \in ChannelValues,
        tc \in ChannelValues, l \in Levels :
       dispatch = [channels |-> [slack |-> s, discord |-> d,
                                 telegram_token |-> tt, telegram_chat_id |-> tc],
                   level |-> l, pos |-> "slack", attempts |-> <<>>]

\* one of the three steps of send_notifications
SendChannel(c) ==
  /\ dispatch.pos = c
  /\ \E result \in SendResults :
       dispatch' =
         IF Configured(dispatch.channels, c)
         THEN [dispatch EXCEPT
                 !.attempts = Append(@, [channel |-> c, result |-> result]),
                 !.pos = AfterSend(c, result)]
         ELSE [dispatch EXCEPT !.pos = NextChannel(c)]
  /\ UNCHANGED <<sites, persisted, state, pc, idx, now, lastEval, failed,
                 alerted, lastAlert, track>>

SendSlack == SendChannel("slack")

SendDiscord == SendChannel("discord")

SendTelegram == SendChannel("telegram")

NextDispatch == SendSlack \/ SendDiscord \/ SendTelegram

SpecDispatch == InitDispatch /\ [][NextDispatch]_vars

----------------------------------------------------------------------------
(* Cycles that end early and records of sites that are not configured: the *)
(* configuration is read anew at every cycle, it may be empty or hold a    *)
(* site without a name, and the persisted store may hold a record of a     *)
(* site that is configured no longer.                                      *)

CycleConfigs ==
  { <<>>, <<SitesConfig[1]>>, <<SitesConfig[1], SitesConfig[3]>>,
    <<SitesConfig[1], UnnamedSite>>, <<UnnamedSite, SitesConfig[1]>> }

\* a record written by an earlier cycle for a site since removed
StaleStore ==
  [k \in {<<HostOld, 443>>} |->
     [last_expiry |-> Some(10 * HoursPerDay), notified_thresholds |-> <<15>>,
      last_notification_sent |-> Some(0)]]

CycleKeys ==
  {SiteKey(SitesConfig[1]), SiteKey(SitesConfig[3]), SiteKey(UnnamedSite)}
    \cup DOMAIN StaleStore

InitCycle ==
  /\ sites \in CycleConfigs
  /\ persisted \in {EmptyStore, StaleStore}
  /\ state = EmptyStore
  /\ pc = "idle"
  /\ idx = 1
  /\ now = 0
  /\ lastEval = NoEval
  /\ failed = {}
  /\ alerted = {}
  /\ lastAlert = [k \in CycleKeys |-> None]
  /\ dispatch = NoDispatch
  /\ track = NoTrack

LoadConfig == LoadConfigFrom(CycleConfigs)

NextCycle ==
  LoadConfig \/ LoadState \/ ProcessSiteChecked \/ RaiseInSite \/ SaveState

SpecCycle == InitCycle /\ [][NextCycle]_vars

----------------------------------------------------------------------------
(* One site whose certificate stays the same: the probe fails or returns   *)
(* the one expiry, the clock moves on by half days, and the thresholds the *)
(* rate limit has suppressed are kept track of.                            *)

ConstExpiry == 16 * HoursPerDay

\* the alert_days and the notification_interval_hours of the one site
ConstSettings ==
  { <<None, Some(12)>>, <<None, Some(48)>>, <<Some(<<3, 2, 1>>), Some(48)>>,
    <<Some(<<14, 16, 15>>), None>> }

ConstSites ==
  { [name |-> "web", hostname |-> HostA, port |-> None,
     alert_days |-> c[1], interval_hours |-> c[2]] : c \in ConstSettings }

\* the site alone, or followed by an entry without a name
ConstConfigs ==
  { <<site>> : site \in ConstSites }
    \cup { <<site, UnnamedSite>> : site \in ConstSites }

ConstProbes(t_now) == {Fail} \cup {Cert(e) : e \in {x \in {ConstExpiry} : x > t_now}}

InitConst == \E config \in ConstConfigs : InitWith(config)

\* half a day passes
TickConst ==
  /\ now + TickHours <= MaxConstHalfDays * TickHours
  /\ now' = now + TickHours
  /\ UNCHANGED <<sites, persisted, state, pc, idx, lastEval, failed, alerted,
                 lastAlert, aux>>

\* what an evaluation does to the suppressed thresholds: a threshold that
\* passes the check of notified_thresholds and fails the rate limit is
\* suppressed; a suppressed threshold that is not notified when a smaller
\* threshold is the candidate has been passed over
TrackAfter(tr, eval) ==
  IF eval.kind # "ok" \/ eval.triggered = None THEN tr
  ELSE LET t == Val(eval.triggered)
           held == /\ ~InSeq(t, eval.post.notified_thresholds)
                   /\ ThresholdsOf(eval.events) = {}
       IN  [tr EXCEPT
              !.suppressed = @ \cup (IF held THEN {t} ELSE {}),
              !.lost = @ \cup {s \in tr.suppressed :
                                 s > t /\ ~InSeq(s, eval.post.notified_thresholds)}]

ProcessSiteConst ==
  /\ pc = "running"
  /\ idx <= Len(sites)
  /\ WellFormed(sites[idx])
  /\ ProcessSiteOn(ConstProbes(now))
  /\ track' = TrackAfter(track, lastEval')
  /\ UNCHANGED dispatch

NextConst ==
  TickConst \/ LoadState \/ ProcessSiteConst \/ RaiseInSite \/ SaveState

SpecConst == InitConst /\ [][NextConst]_vars

----------------------------------------------------------------------------
(* The evaluation together with the delivery of its notifications: the     *)
(* channels of the one site are drawn, every send succeeds or fails, and   *)
(* the threshold alerts no channel has delivered are kept track of.        *)

DeliverChannels ==
  { [slack |-> s, discord |-> d, telegram_token |-> t, telegram_chat_id |-> t] :
      <<s, d, t>> \in { <<None, Some(""), None>>,
                        <<Some("https://hook"), Some(""), None>>,
                        <<None, Some(""), Some("token")>>,
                        <<Some("https://hook"), Some("https://hook"),
                          Some("token")>> } }

SendOutcomes == [{"slack", "discord", "telegram"} -> SendResults]

InitDeliver ==
  /\ sites = <<SitesConfig[1]>>
  /\ persisted = EmptyStore
  /\ state = EmptyStore
  /\ pc = "idle"
  /\ idx = 1
  /\ now = 0
  /\ lastEval = NoEval
  /\ failed = {}
  /\ alerted = {}
  /\ lastAlert = [k \in KeysOf(<<SitesConfig[1]>>) |-> None]
  /\ track = NoTrack
  /\ \E c \in DeliverChannels : dispatch = [NoDispatch EXCEPT !.channels = c]

\* the send_notifications call of the last event of an evaluation
DispatchAfter(d, eval, results) ==
  IF eval.events = <<>> THEN [d EXCEPT !.pos = "none", !.attempts = <<>>]
  ELSE [d EXCEPT !.pos = "done",
                 !.level = eval.events[Len(eval.events)].level,
                 !.attempts = Attempts(d.channels, results)]

\* a threshold alert dispatched for the first time that no channel delivered
UndeliveredAfter(tr, d, eval) ==
  IF /\ ThresholdsOf(eval.events) # {}
     /\ ~eval.repeat
     /\ \A i \in 1..Len(d.attempts) : d.attempts[i].result = "error"
  THEN [tr EXCEPT !.undelivered =
          @ \cup {<<eval.key, eval.expiry, t>> : t \in ThresholdsOf(eval.events)}]
  ELSE tr

ProcessSiteDeliver ==
  /\ ProcessSiteOn(ProbeResults(now))
  /\ \E results \in SendOutcomes :
       dispatch' = DispatchAfter(dispatch, lastEval', results)
  /\ track' = UndeliveredAfter(track, dispatch', lastEval')

NextDeliver == Tick \/ LoadState \/ ProcessSiteDeliver \/ SaveState

SpecDeliver == InitDeliver /\ [][NextDeliver]_vars

----------------------------------------------------------------------------
(* Vocabulary of the properties, stated on the configuration as written   *)
(* and on the observed evaluation, not on the operators of the evaluation *)

Range(seq) == {seq[i] : i \in 1..Len(seq)}

IsPrefix(a, b) == Len(a) <= Len(b) /\ SubSeq(b, 1, Len(a)) = a

\* the thresholds site number i is configured with
ConfiguredDays(i) ==
  IF sites[i].alert_days = None THEN {30, 15, 7, 3, 1}
  ELSE Range(Val(sites[i].alert_days))

\* the rate-limit interval of site number i, in hours
ConfiguredInterval(i) ==
  IF sites[i].interval_hours = None THEN 24 ELSE Val(sites[i].interval_hours)

EventsOfKind(events, kind) == {j \in 1..Len(events) : events[j].kind = kind}

Evaluated == lastEval.kind = "ok"
ProbeHasFailed == lastEval.kind = "fail"
SentThreshold == EventsOfKind(lastEval.events, "threshold") # {}
SentRenewal == EventsOfKind(lastEval.events, "renewal") # {}

\* an absent timestamp is earlier than every timestamp
NotLater(a, b) == a = None \/ (b # None /\ Val(a) <= Val(b))

----------------------------------------------------------------------------
(* C1: over any sequence of cycles and probed expiries, a threshold alert  *)
(* is dispatched at most once for one site key, one probed expiry (the     *)
(* certificate instance) and one threshold: no evaluation dispatches a     *)
(* threshold alert whose key, expiry and threshold were alerted before.    *)
C1_AtMostOncePerInstance == ~lastEval.repeat

(* C2: two threshold alerts for one site key are at least the dispatching  *)
(* site's notification_interval_hours apart, and an evaluation that finds  *)
(* last_notification_sent less than the interval ago emits no threshold    *)
(* event; the state of every cycle is the one reloaded from the store.     *)
C2_RateLimit ==
  Evaluated =>
    /\ (SentThreshold /\ lastEval.prevAlert # None)
         => lastEval.at - Val(lastEval.prevAlert) >= ConfiguredInterval(lastEval.site)
    /\ (/\ lastEval.prior.last_notification_sent # None
        /\ lastEval.at - Val(lastEval.prior.last_notification_sent)
             < ConfiguredInterval(lastEval.site))
         => ~SentThreshold

(* C3: the persisted last_expiry of a site key never decreases from one    *)
(* state of the store to the next, whatever expiries the probes return.    *)
C3_LastExpiryNeverDecreases ==
  [][\A k \in DOMAIN persisted :
       /\ k \in DOMAIN persisted'
       /\ NotLater(persisted[k].last_expiry, persisted'[k].last_expiry)]_vars

(* C4: a failed probe dispatches exactly one error-level event and no      *)
(* renewal or threshold event, and leaves the store entry of the site key  *)
(* as it was: the same record, or no record when there was none.           *)
C4_ProbeFailureLeavesEntry ==
  ProbeHasFailed =>
    /\ Len(lastEval.events) = 1
    /\ lastEval.events[1].kind = "failure"
    /\ lastEval.events[1].level = "error"
    /\ lastEval.stored = lastEval.had
    /\ lastEval.had => state[lastEval.key] = lastEval.prior

(* C5: an evaluation emits exactly one info renewal event and discards the *)
(* notified thresholds before the threshold check if and only if the prior *)
(* last_expiry is present and the probed expiry is strictly later; in any  *)
(* other evaluation there is no renewal event and the prior thresholds are *)
(* kept.                                                                   *)
C5_RenewalIffLaterExpiry ==
  Evaluated =>
    LET later == /\ lastEval.prior.last_expiry # None
                 /\ lastEval.expiry > Val(lastEval.prior.last_expiry)
        renewals == EventsOfKind(lastEval.events, "renewal")
    IN  /\ later =>
             /\ Cardinality(renewals) = 1
             /\ \A j \in renewals : lastEval.events[j].level = "info"
             /\ lastEval.post.notified_thresholds
                  = IF SentThreshold THEN <<Val(lastEval.triggered)>> ELSE <<>>
        /\ ~later =>
             /\ renewals = {}
             /\ IsPrefix(lastEval.prior.notified_thresholds,
                         lastEval.post.notified_thresholds)

\* a renewal that discards thresholds notified for the earlier certificate
C5_Witness ==
  /\ Evaluated
  /\ SentRenewal
  /\ lastEval.prior.notified_thresholds # <<>>
  /\ lastEval.post.notified_thresholds = <<>>

\* the thresholds alerted so far for a site key
AlertedForKey(key) == {a[3] : a \in {b \in alerted : b[1] = key}}

(* C6, as claimed: after every evaluation of a site the notified           *)
(* thresholds of its state record are among that site's alert_days, also   *)
(* when the record is shared with another configuration of the same key.   *)
C6_NotifiedWithinOwnAlertDays ==
  Evaluated =>
    Range(lastEval.post.notified_thresholds) \subseteq ConfiguredDays(lastEval.site)

(* C6, amended: the threshold an evaluation adds to notified_thresholds is *)
(* among the alert_days the evaluated site is configured with at that      *)
(* evaluation, and an evaluation adds nothing else; every threshold of the *)
(* list was alerted for the site key, possibly through another             *)
(* configuration of the key or through the configuration as it was before  *)
(* it was edited, so the list need not be within the site's alert_days.    *)
C6_NotifiedWereAlerted ==
  /\ Evaluated =>
       /\ ThresholdsOf(lastEval.events) \subseteq ConfiguredDays(lastEval.site)
       /\ Range(lastEval.post.notified_thresholds)
            \subseteq (Range(lastEval.prior.notified_thresholds)
                         \cup ThresholdsOf(lastEval.events))
  /\ \A k \in DOMAIN state :
       Range(state[k].notified_thresholds) \subseteq AlertedForKey(k)

\* a site is evaluated on a record that holds a threshold of the other
\* configuration of its key, and adds one of its own
C6_Witness ==
  /\ Evaluated
  /\ SentThreshold
  /\ ~(Range(lastEval.post.notified_thresholds)
         \subseteq ConfiguredDays(lastEval.site))

(* C7: the triggered threshold is the smallest configured threshold t     *)
(* with remaining_days <= t, whatever thresholds were notified before, and *)
(* there is none when remaining_days exceeds every threshold or            *)
(* alert_days is empty; with alert_days {30,15,7,3,1}, no prior record and *)
(* an expiry 20 days away the evaluation emits no renewal event and one    *)
(* warning event for threshold 30, and notified_thresholds becomes {30}.   *)
C7_SmallestSatisfiedThreshold ==
  Evaluated =>
    LET days == ConfiguredDays(lastEval.site)
        left == lastEval.expiry - lastEval.at
        satisfied == {t \in days : lastEval.remaining <= t}
    IN  /\ lastEval.remaining * 24 <= left
        /\ left < (lastEval.remaining + 1) * 24
        /\ satisfied = {} => lastEval.triggered = None
        /\ satisfied # {} =>
             /\ lastEval.triggered # None
             /\ Val(lastEval.triggered) \in satisfied
             /\ \A t \in satisfied : Val(lastEval.triggered) <= t
        /\ (days = {30, 15, 7, 3, 1} /\ ~lastEval.had /\ left = 20 * 24) =>
             /\ lastEval.triggered = Some(30)
             /\ Len(lastEval.events) = 1
             /\ lastEval.events[1].kind = "threshold"
             /\ lastEval.events[1].level = "warning"
             /\ lastEval.events[1].threshold = Some(30)
             /\ lastEval.post.notified_thresholds = <<30>>

\* the scenario: default alert_days, no prior record, expiry 20 days away
C7_Witness ==
  /\ Evaluated
  /\ sites[lastEval.site].alert_days = None
  /\ ~lastEval.had
  /\ lastEval.expiry - lastEval.at = 20 * 24
  /\ lastEval.triggered = Some(30)
  /\ lastEval.post.notified_thresholds = <<30>>

(* C8: a probe failure never ends the cycle early: the sites are processed *)
(* one after the other in configuration order whatever probes fail, and    *)
(* the store is written exactly once, with the complete snapshot, after    *)
(* the last site.                                                          *)
C8_FailuresDoNotEndCycle ==
  [][/\ (pc = "running" /\ idx <= Len(sites)) =>
          (pc' = "running" /\ idx' \in {idx, idx + 1})
     /\ (pc = "running" /\ idx' # idx) => lastEval'.site = idx
     /\ (pc = "running" /\ pc' = "idle") =>
          (idx = Len(sites) + 1 /\ persisted' = state)
     /\ persisted' # persisted => (pc = "running" /\ pc' = "idle")]_vars

\* a cycle in which the first site's probe failed has processed the other
\* sites and saved their state
C8_Witness ==
  /\ pc = "idle"
  /\ 1 \in failed
  /\ 2 \notin failed
  /\ idx = Len(sites) + 1
  /\ persisted = state
  /\ \E k \in DOMAIN persisted : persisted[k].last_expiry # None

(* C9: last_notification_sent of a site record changes only in an          *)
(* evaluation that dispatches a threshold alert, which sets it to that     *)
(* evaluation's now; a renewal notice alone, a suppressed alert, an        *)
(* evaluation without a fresh triggered threshold and a probe failure      *)
(* leave it unchanged.                                                     *)
C9_LastSentOnlyOnAlert ==
  (Evaluated \/ ProbeHasFailed) =>
    /\ SentThreshold
         => lastEval.post.last_notification_sent = Some(lastEval.at)
    /\ ~SentThreshold
         => lastEval.post.last_notification_sent
              = lastEval.prior.last_notification_sent
    /\ ProbeHasFailed => ~SentThreshold
    /\ lastEval.stored
    /\ state[lastEval.key] = lastEval.post

\* an evaluation that emits a renewal notice only and keeps the timestamp
\* of an earlier alert
C9_Witness ==
  /\ Evaluated
  /\ SentRenewal
  /\ ~SentThreshold
  /\ lastEval.prior.last_notification_sent # None
  /\ lastEval.at > Val(lastEval.prior.last_notification_sent)
  /\ lastEval.post.last_notification_sent = lastEval.prior.last_notification_sent

(* C10: evaluating a site again on the state its evaluation produced, with *)
(* the same now and the same probed expiry, emits no threshold and no      *)
(* renewal event and leaves the site state unchanged.                      *)
C10_SecondEvaluationIsSilent ==
  Evaluated =>
    LET again == Evaluate(sites[lastEval.site], lastEval.post,
                          lastEval.expiry, lastEval.at)
    IN  /\ again.events = <<>>
        /\ again.state = lastEval.post

\* the first evaluation renewed the record and dispatched a threshold alert
C10_Witness ==
  /\ Evaluated
  /\ SentRenewal
  /\ SentThreshold
  /\ lastEval.prior.notified_thresholds # <<>>

----------------------------------------------------------------------------
\* the site key of site number i as the configuration gives it: the bare
\* host of a URL-form hostname, and the port
ConfiguredKey(i) ==
  LET text == sites[i].hostname
      colon == Find(text, {":"}, 1)
      url == colon > 0 /\ SubSeq(text, colon, colon + 2) = <<":", "/", "/">>
  IN  << IF url THEN LowerText(SubSeq(text, colon + 3, Len(text))) ELSE text,
         IF sites[i].port = None THEN 443 ELSE Val(sites[i].port) >>

\* the notified thresholds as the threshold check of the evaluation found them
NotifiedAtCheck ==
  IF SentRenewal THEN <<>> ELSE lastEval.prior.notified_thresholds

(* C11: after every evaluation that follows a successful probe the site's  *)
(* last_expiry equals the probed expiry, with or without a renewal, a      *)
(* triggered threshold or a suppressed alert.                              *)
C11_LastExpiryIsProbed ==
  Evaluated =>
    /\ lastEval.post.last_expiry = Some(lastEval.expiry)
    /\ lastEval.key \in DOMAIN state
    /\ state[lastEval.key].last_expiry = Some(lastEval.expiry)

\* a probe with an earlier expiry than the recorded one, in an evaluation
\* whose alert is suppressed
C11_Witness ==
  /\ Evaluated
  /\ lastEval.prior.last_expiry # None
  /\ lastEval.expiry < Val(lastEval.prior.last_expiry)
  /\ lastEval.triggered # None
  /\ Val(lastEval.triggered) \notin Range(lastEval.post.notified_thresholds)
  /\ lastEval.post.last_expiry = Some(lastEval.expiry)

(* C13: a dispatched threshold alert is a warning exactly when its         *)
(* threshold is greater than 7 and an error-level (critical) event exactly *)
(* when it is 7 or less; the same evaluation appends the threshold to      *)
(* notified_thresholds and sets last_notification_sent to now.             *)
C13_SeverityByThreshold ==
  Evaluated =>
    \A j \in EventsOfKind(lastEval.events, "threshold") :
      LET t == Val(lastEval.events[j].threshold)
      IN  /\ lastEval.events[j].level \in {"warning", "error"}
          /\ lastEval.events[j].level = "warning" <=> t > 7
          /\ lastEval.events[j].level = "error" <=> t <= 7
          /\ lastEval.post.notified_thresholds = Append(NotifiedAtCheck, t)
          /\ lastEval.post.last_notification_sent = Some(lastEval.at)

\* the alert for threshold 7, the largest critical one
C13_Witness ==
  /\ Evaluated
  /\ Len(lastEval.events) = 1
  /\ lastEval.events[1].kind = "threshold"
  /\ lastEval.events[1].threshold = Some(7)
  /\ lastEval.events[1].level = "error"
  /\ lastEval.post.notified_thresholds = <<7>>

(* C15: site configurations whose bare host and port give the same key     *)
(* read and write one state record: an evaluation reads the record of its  *)
(* key as the configurations processed before it in the cycle left it and  *)
(* writes it back under that key, and a configuration evaluated right      *)
(* after another one of its key, on the same probed expiry, alerts no      *)
(* threshold the record already holds.                                     *)
C15_SharedRecordPerKey ==
  [][(pc = "running" /\ idx' = idx + 1) =>
       /\ lastEval'.key = ConfiguredKey(idx)
       /\ lastEval'.prior = (IF ConfiguredKey(idx) \in DOMAIN state
                             THEN state[ConfiguredKey(idx)]
                             ELSE [last_expiry |-> None,
                                   notified_thresholds |-> <<>>,
                                   last_notification_sent |-> None])
       /\ ConfiguredKey(idx) \in DOMAIN state'
       /\ state'[ConfiguredKey(idx)] = lastEval'.post
       /\ \A k \in DOMAIN state \ {ConfiguredKey(idx)} :
            k \in DOMAIN state' /\ state'[k] = state[k]
       /\ (/\ Evaluated
           /\ lastEval'.kind = "ok"
           /\ ConfiguredKey(lastEval.site) = ConfiguredKey(idx)
           /\ lastEval'.expiry = lastEval.expiry)
            => /\ lastEval'.prior = lastEval.post
               /\ ThresholdsOf(lastEval'.events)
                    \cap Range(lastEval.post.notified_thresholds) = {}]_vars

\* the second configuration of a key triggers a threshold that the first
\* one alerted earlier in this cycle, after its own interval has passed, and
\* sends nothing
C15_Witness ==
  /\ Evaluated
  /\ pc = "running"
  /\ lastEval.site = 2
  /\ ConfiguredKey(1) = ConfiguredKey(2)
  /\ ~(lastEval.key \in DOMAIN persisted)
  /\ lastEval.triggered # None
  /\ Val(lastEval.triggered) \in Range(lastEval.prior.notified_thresholds)
  /\ lastEval.prior.last_expiry = Some(lastEval.expiry)
  /\ lastEval.at - Val(lastEval.prior.last_notification_sent)
       >= ConfiguredInterval(2)
  /\ lastEval.events = <<>>

\* the rate-limit case of an evaluation: a threshold is triggered and an
\* earlier alert is on record
RateLimitCase ==
  /\ Evaluated
  /\ lastEval.triggered # None
  /\ lastEval.prior.last_notification_sent # None

ElapsedSinceAlert == lastEval.at - Val(lastEval.prior.last_notification_sent)

(* C12, as claimed: when the triggered threshold is not yet notified and   *)
(* last_notification_sent is less than the interval ago, no threshold      *)
(* event is emitted and the evaluation leaves notified_thresholds and      *)
(* last_notification_sent unchanged, last_expiry being updated; from the   *)
(* interval on the alert is sent.                                          *)
C12_SuppressedLeavesNotified ==
  (/\ RateLimitCase
   /\ Val(lastEval.triggered) \notin Range(lastEval.prior.notified_thresholds)
   /\ ElapsedSinceAlert < ConfiguredInterval(lastEval.site))
    => /\ ~SentThreshold
       /\ lastEval.post.notified_thresholds = lastEval.prior.notified_thresholds
       /\ lastEval.post.last_notification_sent
            = lastEval.prior.last_notification_sent
       /\ lastEval.post.last_expiry = Some(lastEval.expiry)

(* C12, amended: when the triggered threshold is not among the notified    *)
(* thresholds as the threshold check finds them and last_notification_sent *)
(* is strictly less than the interval ago, no threshold event is emitted,  *)
(* last_notification_sent is unchanged and notified_thresholds is what the *)
(* renewal check left: unchanged, or empty when this evaluation detected a *)
(* renewal; last_expiry is updated.  When the elapsed time is equal to or  *)
(* greater than the interval the alert is sent.  With the expiry 5 days    *)
(* away, the last alert 1 hour ago and an interval of 24 hours, threshold  *)
(* 7 is triggered and suppressed.                                          *)
C12_SuppressedWithinInterval ==
  (/\ RateLimitCase
   /\ Val(lastEval.triggered) \notin Range(NotifiedAtCheck))
    => /\ ElapsedSinceAlert < ConfiguredInterval(lastEval.site) =>
            /\ ~SentThreshold
            /\ lastEval.post.notified_thresholds = NotifiedAtCheck
            /\ lastEval.post.last_notification_sent
                 = lastEval.prior.last_notification_sent
            /\ lastEval.post.last_expiry = Some(lastEval.expiry)
       /\ ElapsedSinceAlert >= ConfiguredInterval(lastEval.site) =>
            /\ ThresholdsOf(lastEval.events) = {Val(lastEval.triggered)}
            /\ lastEval.post.last_notification_sent = Some(lastEval.at)
       /\ (/\ lastEval.expiry - lastEval.at = 5 * 24
           /\ ElapsedSinceAlert = 1
           /\ ConfiguredInterval(lastEval.site) = 24
           /\ ConfiguredDays(lastEval.site) = {30, 15, 7, 3, 1}) =>
            /\ lastEval.triggered = Some(7)
            /\ ~SentThreshold

\* the scenario: expiry 5 days away, last alert 1 hour ago, interval 24 h
C12_Witness ==
  /\ RateLimitCase
  /\ lastEval.expiry - lastEval.at = 5 * 24
  /\ ElapsedSinceAlert = 1
  /\ ConfiguredInterval(lastEval.site) = 24
  /\ lastEval.triggered = Some(7)
  /\ lastEval.prior.notified_thresholds = <<15>>
  /\ lastEval.post.notified_thresholds = <<15>>
  /\ lastEval.events = <<>>

\* a channel value that names a destination
HasValue(v) == v \notin {None, Some("")}

\* the channels configured for the site, in the order of the dispatch
ConfiguredChannels(channels) ==
  (IF HasValue(channels.slack) THEN <<"slack">> ELSE <<>>)
  \o (IF HasValue(channels.discord) THEN <<"discord">> ELSE <<>>)
  \o (IF HasValue(channels.telegram_token) /\ HasValue(channels.telegram_chat_id)
      THEN <<"telegram">> ELSE <<>>)

AttemptedChannels == [i \in 1..Len(dispatch.attempts) |-> dispatch.attempts[i].channel]

(* C14: dispatching one event attempts every channel configured for the    *)
(* site exactly once, whatever sends fail: a failed send neither stops the *)
(* sends to the remaining channels nor leaves the dispatch with an error,  *)
(* and no send is repeated.                                                *)
C14_EveryChannelOnce ==
  dispatch.pos # "none" =>
    /\ dispatch.pos \in {"slack", "discord", "telegram", "done"}
    /\ IsPrefix(AttemptedChannels, ConfiguredChannels(dispatch.channels))
    /\ \A i, j \in 1..Len(dispatch.attempts) :
         dispatch.attempts[i].channel = dispatch.attempts[j].channel => i = j
    /\ dispatch.pos = "done" =>
         AttemptedChannels = ConfiguredChannels(dispatch.channels)

\* all three channels configured, the first two sends failed, all attempted
C14_Witness ==
  /\ dispatch.pos = "done"
  /\ ConfiguredChannels(dispatch.channels) = <<"slack", "discord", "telegram">>
  /\ AttemptedChannels = <<"slack", "discord", "telegram">>
  /\ dispatch.attempts[1].result = "error"
  /\ dispatch.attempts[2].result = "error"
  /\ dispatch.attempts[3].result = "ok"

\* the keys hostname:port of the sites configured in the current cycle
ConfiguredKeys == {ConfiguredKey(i) : i \in 1..Len(sites)}

\* every record of the store a is in the store b, and a record whose key is
\* not configured is the same in both
KeepsOtherRecords(a, b) ==
  \A k \in DOMAIN a :
    /\ k \in DOMAIN b
    /\ k \notin ConfiguredKeys => b[k] = a[k]

(* C16: a cycle changes only the store entries whose key is the            *)
(* hostname:port of a site configured in that cycle: every other record    *)
(* loaded from the persisted store stays as loaded through the cycle, is   *)
(* written back unchanged and is never removed, cycle after cycle.         *)
C16_OtherRecordsKept ==
  [][ /\ KeepsOtherRecords(persisted, persisted')
      /\ pc = "idle" /\ pc' = "running" => state' = persisted
      /\ pc = "running" => KeepsOtherRecords(state, state') ]_vars

\* a cycle on the site web alone has written the store back, with the record
\* of the removed site and the record of the site api as they were
C16_Witness ==
  /\ pc = "idle"
  /\ Len(sites) = 1
  /\ <<HostA, 443>> \in DOMAIN persisted
  /\ persisted[<<HostA, 443>>].notified_thresholds # <<>>
  /\ <<HostB, 8443>> \in DOMAIN persisted
  /\ <<HostOld, 443>> \in DOMAIN persisted
  /\ persisted[<<HostOld, 443>>] = StaleStore[<<HostOld, 443>>]
  /\ persisted[<<HostB, 8443>>].last_expiry
       # persisted[<<HostA, 443>>].last_expiry

\* the step ends a cycle before every configured site was processed
CycleEndsEarly ==
  \/ pc = "idle" /\ pc' = "idle" /\ Len(sites) = 0 /\ state' = persisted
  \/ pc = "running" /\ pc' = "idle" /\ idx <= Len(sites)

(* C17: the persisted store is written only by save_state at the end of a  *)
(* cycle in which every configured site was processed; a cycle that ends   *)
(* early, on an empty site list or on an exception escaping process_site,  *)
(* leaves the persisted store as it was at cycle start, and the next cycle *)
(* starts from that store.                                                 *)
C17_SavedOnlyAfterFullCycle ==
  [][ /\ persisted' # persisted =>
           /\ pc = "running" /\ pc' = "idle"
           /\ Len(sites) > 0 /\ idx = Len(sites) + 1
           /\ persisted' = state
      /\ CycleEndsEarly => persisted' = persisted
      /\ pc = "idle" /\ pc' = "running" => state' = persisted' ]_vars

\* the alert of a cycle that ended early is dispatched again by the next
\* cycle: the record of the site was never persisted
C17_Witness ==
  /\ Evaluated
  /\ SentThreshold
  /\ lastEval.repeat
  /\ lastEval.key \notin DOMAIN persisted
  /\ lastEval.prior.notified_thresholds = <<>>
  /\ Len(sites) = 2
  /\ "name" \notin DOMAIN sites[2]

\* the thresholds alerted so far for the evaluated key and expiry
AlertedFor(key, expiry) ==
  {a[3] : a \in {b \in alerted : b[1] = key /\ b[2] = expiry}}

StrictlyDecreasing(seq) == \A i, j \in 1..Len(seq) : i < j => seq[i] > seq[j]

(* C18: for one site key with a constant probed expiry, a fixed alert_days *)
(* and a clock that never moves back, the thresholds of the successive     *)
(* threshold alerts are strictly decreasing: an alerted threshold is       *)
(* smaller than every threshold alerted before it for the certificate, and *)
(* the notified thresholds are recorded in strictly decreasing order.      *)
C18_AlertsStrictlyDecreasing ==
  /\ Evaluated /\ SentThreshold =>
       /\ ~lastEval.repeat
       /\ \A u \in AlertedFor(lastEval.key, lastEval.expiry) :
            \/ u > Val(lastEval.triggered)
            \/ /\ u = Val(lastEval.triggered)
               /\ u \notin Range(lastEval.prior.notified_thresholds)
       /\ \A u \in Range(lastEval.prior.notified_thresholds) :
            u > Val(lastEval.triggered)
  /\ \A k \in DOMAIN state : StrictlyDecreasing(state[k].notified_thresholds)

\* the rate limit no longer holds the alert back
IntervalReached ==
  \/ lastEval.prior.last_notification_sent = None
  \/ lastEval.at - Val(lastEval.prior.last_notification_sent)
       >= ConfiguredInterval(lastEval.site)

(* C20: a threshold alert suppressed only by the rate limit is not lost    *)
(* while it stays the triggered threshold: with the same expiry probed,    *)
(* the evaluation at which now - last_notification_sent has reached the    *)
(* interval dispatches the alert of the triggered threshold when that      *)
(* threshold is still un-notified; a suppressed threshold that was passed  *)
(* over because remaining_days fell into a smaller threshold is never      *)
(* alerted nor recorded, and the smaller threshold is the one alerted.     *)
C20_SuppressedAlertSentOrPassedOver ==
  /\ (/\ Evaluated
      /\ lastEval.triggered # None
      /\ Val(lastEval.triggered) \notin Range(lastEval.prior.notified_thresholds)
      /\ IntervalReached)
       => /\ ThresholdsOf(lastEval.events) = {Val(lastEval.triggered)}
          /\ \A s \in track.suppressed :
               (/\ s > Val(lastEval.triggered)
                /\ s \notin Range(lastEval.prior.notified_thresholds)) =>
                 /\ s \in track.lost
                 /\ s \notin Range(lastEval.post.notified_thresholds)
  /\ \A s \in track.lost :
       /\ \A a \in alerted : a[3] # s
       /\ \A k \in DOMAIN state : s \notin Range(state[k].notified_thresholds)
       /\ Evaluated /\ lastEval.triggered # None => Val(lastEval.triggered) < s

\* threshold 2 was suppressed after the alert of 3, and once the 48 hours
\* were over the alert of threshold 1 was dispatched in its place
C20_Witness ==
  /\ Evaluated
  /\ track.suppressed = {2}
  /\ track.lost = {2}
  /\ ThresholdsOf(lastEval.events) = {1}
  /\ lastEval.prior.notified_thresholds = <<3>>
  /\ lastEval.post.notified_thresholds = <<3, 1>>
  /\ lastEval.at - Val(lastEval.prior.last_notification_sent) = 48

\* a suppressed threshold that stayed the triggered one is alerted at the
\* evaluation at which the interval is reached
C20_SentWitness ==
  /\ Evaluated
  /\ lastEval.triggered = Some(15)
  /\ 15 \in track.suppressed
  /\ ThresholdsOf(lastEval.events) = {15}
  /\ lastEval.at - Val(lastEval.prior.last_notification_sent) = 48

\* no channel has delivered the last dispatch
NothingDelivered ==
  /\ dispatch.pos = "done"
  /\ \A i \in 1..Len(dispatch.attempts) : dispatch.attempts[i].result = "error"

(* C19: when a threshold alert passes the dedup and rate-limit checks the  *)
(* threshold is added to notified_thresholds and last_notification_sent is *)
(* set to now whatever the delivery outcome, also when every send fails or *)
(* no channel is configured, and a threshold alert that was not delivered  *)
(* is never dispatched again for the same site key and expiry.             *)
C19_UndeliveredNeverRetried ==
  (Evaluated /\ SentThreshold) =>
    /\ Val(lastEval.triggered) \in Range(lastEval.post.notified_thresholds)
    /\ lastEval.post.last_notification_sent = Some(lastEval.at)
    /\ ~(/\ lastEval.repeat
         /\ <<lastEval.key, lastEval.expiry, Val(lastEval.triggered)>>
              \in track.undelivered)

(* The part of C19 that holds: the alert is recorded whatever the delivery *)
(* outcome, and it is not dispatched again as long as no renewal empties   *)
(* notified_thresholds.                                                    *)
C19_RecordedWhateverDelivered ==
  (Evaluated /\ SentThreshold) =>
    /\ Val(lastEval.triggered) \in Range(lastEval.post.notified_thresholds)
    /\ lastEval.post.last_notification_sent = Some(lastEval.at)
    /\ Val(lastEval.triggered) \notin Range(NotifiedAtCheck)

\* a threshold alert recorded although every send failed
C19_RecordedWitness ==
  /\ Evaluated
  /\ SentThreshold
  /\ NothingDelivered
  /\ Len(dispatch.attempts) = 3
  /\ lastEval.post.notified_thresholds = <<15>>
  /\ lastEval.post.last_notification_sent = Some(lastEval.at)

====
